---- MODULE Spec2Model ----
(***************************************************************************)
(* Toy RSA (src/lib.rs): key-pair generation from two primes, encryption   *)
(* and decryption by modular exponentiation, and the two utilities         *)
(* util::mod_mult_inv (extended Euclid) and util::mod_pow (right-to-left   *)
(* binary method).                                                         *)
(*                                                                         *)
(* The code is generic over N: Integer; the model works over the           *)
(* mathematical integers, with Rust's truncating division and remainder.   *)
(* Three entry points are modelled, chosen by the initial state:           *)
(*   - gen_key_pair(p, q, rng) followed by encrypt and decrypt,            *)
(*   - a direct call of util::mod_mult_inv, run one loop iteration a step, *)
(*   - a direct call of util::mod_pow, run one loop iteration a step.      *)
(***************************************************************************)
EXTENDS Integers, Sequences, FiniteSets, TLC

VARIABLES
    pc,      \* position of the running call
    p, q,    \* gen_key_pair: the two primes
    n, phi,  \* gen_key_pair: n = p*q and the totient
    cand,    \* gen_key_pair: the value the last rng.gen_range call returned
    e, d,    \* gen_key_pair: public and private exponent
    data,    \* encrypt: the plaintext
    cipher,  \* the value encrypt returned
    plain,   \* the value decrypt returned
    args,    \* the arguments of the direct utility call
    mi,      \* util::mod_mult_inv: its locals [r1, r2, t1, t2]
    mp,      \* util::mod_pow: its locals [base, exponent, modulo, out]
    iters,   \* number of loop bodies the direct utility call has run
    ret      \* the value the direct utility call returned

vars == <<pc, p, q, n, phi, cand, e, d, data, cipher, plain, args, mi, mp, iters, ret>>

(***************************************************************************)
(* Bounds of the model.                                                    *)
(***************************************************************************)
MaxPrime == 12
MaxR == 20
MaxBase == 6
MaxExponent == 16
MaxModulo == 6

(***************************************************************************)
(* Integer arithmetic as Rust (and num::Integer for primitive integers)    *)
(* computes it: division truncates toward zero, the remainder has the sign *)
(* of the dividend, >> on a signed integer is an arithmetic shift.         *)
(***************************************************************************)
Abs(x) == IF x < 0 THEN -x ELSE x

TruncDiv(x, y) ==
    IF (x < 0) = (y < 0) THEN Abs(x) \div Abs(y) ELSE -(Abs(x) \div Abs(y))

TruncRem(x, y) == x - y * TruncDiv(x, y)

RECURSIVE Pow2(_)
Pow2(k) == IF k = 0 THEN 1 ELSE 2 * Pow2(k - 1)

Shr(x, k) == x \div Pow2(k)

\* num::Integer::gcd: the non-negative greatest common divisor
RECURSIVE gcd(_, _)
gcd(x, y) == IF y = 0 THEN Abs(x) ELSE gcd(y, TruncRem(x, y))

IsPrime(x) == x > 1 /\ \A k \in 2..(x - 1) : x % k # 0

Primes == {x \in 2..MaxPrime : IsPrime(x)}

(***************************************************************************)
(* util::mod_mult_inv                                                      *)
(***************************************************************************)
\* the locals of mod_mult_inv
InvState == [r1 : Int, r2 : Int, t1 : Int, t2 : Int]

\* let (mut t1, mut t2) = (0, 1)
InvInit(x, y) == [r1 |-> x, r2 |-> y, t1 |-> 0, t2 |-> 1]

\* a loop body that stores the quotient where the remainder belongs
InvStep_div(s) ==
    [r1 |-> s.r2,
     r2 |-> TruncDiv(s.r1, s.r2),
     t1 |-> s.t2,
     t2 |-> s.t1 - TruncDiv(s.r1, s.r2) * s.t2]

\* a loop body that adds div*t2 instead of subtracting it
InvStep_plus(s) ==
    [r1 |-> s.r2,
     r2 |-> TruncRem(s.r1, s.r2),
     t1 |-> s.t2,
     t2 |-> s.t1 + TruncDiv(s.r1, s.r2) * s.t2]

\* a loop body that overwrites t1 before it is used (no old_t1)
InvStep_clobbered(s) ==
    [r1 |-> s.r2,
     r2 |-> TruncRem(s.r1, s.r2),
     t1 |-> s.t2,
     t2 |-> s.t2 - TruncDiv(s.r1, s.r2) * s.t2]

\* one iteration of the while loop
InvStep(s) ==
    [r1 |-> s.r2,
     r2 |-> TruncRem(s.r1, s.r2),
     t1 |-> s.t2,
     t2 |-> s.t1 - TruncDiv(s.r1, s.r2) * s.t2]

\* while r2 != 0 {...}; t1
InvRun[s \in InvState] ==
    IF s.r2 # 0 THEN InvRun[InvStep(s)] ELSE s.t1

mod_mult_inv(x, y) == InvRun[InvInit(x, y)]

(***************************************************************************)
(* util::mod_pow                                                           *)
(***************************************************************************)
\* the locals of mod_pow
PowState == [base : Int, exponent : Int, modulo : Int, out : Int]

\* an initialisation that reduces the accumulator modulo the modulus
PowInit_reduced(b, x, m) ==
    [base |-> TruncRem(b, m), exponent |-> x, modulo |-> m, out |-> TruncRem(1, m)]

\* let mut out = 1; base = base % modulo
PowInit(b, x, m) ==
    [base |-> TruncRem(b, m), exponent |-> x, modulo |-> m, out |-> 1]

\* a loop body that shifts the exponent by two bits
PowStep_shift2(s) ==
    [base     |-> TruncRem(s.base * s.base, s.modulo),
     exponent |-> Shr(s.exponent, 2),
     modulo   |-> s.modulo,
     out      |-> IF TruncRem(s.exponent, 2) = 1
                  THEN TruncRem(s.out * s.base, s.modulo)
                  ELSE s.out]

\* one iteration of the while loop
PowStep(s) ==
    [base     |-> TruncRem(s.base * s.base, s.modulo),
     exponent |-> Shr(s.exponent, 1),
     modulo   |-> s.modulo,
     out      |-> IF TruncRem(s.exponent, 2) = 1
                  THEN TruncRem(s.out * s.base, s.modulo)
                  ELSE s.out]

\* while exponent > 0 {...}; out
PowRun[s \in PowState] ==
    IF s.exponent > 0 THEN PowRun[PowStep(s)] ELSE s.out

mod_pow(b, x, m) == PowRun[PowInit(b, x, m)]

(***************************************************************************)
(* gen_key_pair, encrypt, decrypt                                          *)
(***************************************************************************)
\* a range that excludes its lower bound as well
SampleRange_open(low, high) == (low + 1)..(high - 1)

\* the values rng.gen_range(low, high) can return: the half-open [low, high)
SampleRange(low, high) == low..(high - 1)

\* a normalisation that returns the raw inverse
Normalize_raw(inv, f) == inv

\* if inv < 0 {inv + phi} else {inv}
Normalize(inv, f) == IF inv < 0 THEN inv + f ELSE inv

PublicKey(modulus, x) == <<modulus, x>>

PrivateKey(x) == <<x>>

encrypt(m, key) == mod_pow(m, key[2], key[1])

\* a decryption that takes the exponent from the public key
decrypt_public(c, keypair) == mod_pow(c, keypair[1][2], keypair[1][1])

decrypt(c, keypair) == mod_pow(c, keypair[2][1], keypair[1][1])

KeyPair == <<PublicKey(n, e), PrivateKey(d)>>

(***************************************************************************)
(* Initial states: one call, with its arguments.                           *)
(***************************************************************************)
Idle == [r1 |-> 0, r2 |-> 0, t1 |-> 0, t2 |-> 0]

IdlePow == [base |-> 0, exponent |-> 0, modulo |-> 1, out |-> 0]

\* the argument pairs of tests::mod_mult_inv
InvTests == {<<3120, 17>>, <<240, 46>>}

\* the argument triples of tests::mod_pow
PowTests == {<<3120, 17, 2753>>, <<240, 46, 47>>}

InvArgs == ((0..MaxR) \X (0..MaxR)) \cup InvTests

PowArgs ==
    ((-MaxBase..MaxBase) \X (0..MaxExponent) \X ((-MaxModulo..MaxModulo) \ {0}))
        \cup PowTests

InitKey ==
    /\ pc = "start"
    /\ p \in Primes /\ q \in Primes
    /\ n = 0 /\ phi = 0 /\ cand = 0 /\ e = 0 /\ d = 0
    /\ data = 0 /\ cipher = 0 /\ plain = 0
    /\ args = <<>> /\ mi = Idle /\ mp = IdlePow /\ iters = 0 /\ ret = 0

InitInv ==
    /\ pc = "inv_loop"
    /\ args \in InvArgs
    /\ mi = InvInit(args[1], args[2])
    /\ p = 0 /\ q = 0 /\ n = 0 /\ phi = 0 /\ cand = 0 /\ e = 0 /\ d = 0
    /\ data = 0 /\ cipher = 0 /\ plain = 0
    /\ mp = IdlePow /\ iters = 0 /\ ret = 0

InitPow ==
    /\ pc = "pow_loop"
    /\ args \in PowArgs
    /\ mp = PowInit(args[1], args[2], args[3])
    /\ p = 0 /\ q = 0 /\ n = 0 /\ phi = 0 /\ cand = 0 /\ e = 0 /\ d = 0
    /\ data = 0 /\ cipher = 0 /\ plain = 0
    /\ mi = Idle /\ iters = 0 /\ ret = 0

Init == InitKey \/ InitInv \/ InitPow

(***************************************************************************)
(* gen_key_pair                                                            *)
(***************************************************************************)
keyVars == <<p, q, n, phi, cand, e, d, data, cipher, plain>>
utilVars == <<args, mi, mp, iters, ret>>

\* let n = p*q; let phi = (p-1)*(q-1)
Totient ==
    /\ pc = "start"
    /\ n' = p * q
    /\ phi' = (p - 1) * (q - 1)
    /\ pc' = "gen_range"
    /\ UNCHANGED <<p, q, cand, e, d, data, cipher, plain, utilVars>>

\* rng.gen_range(1, phi) returns x
GenRange(x) ==
    /\ pc = "gen_range"
    /\ x \in SampleRange(1, phi)
    /\ cand' = x
    /\ pc' = "find"
    /\ UNCHANGED <<p, q, n, phi, e, d, data, cipher, plain, utilVars>>

\* rng.gen_range(1, phi) panics on an empty range (low >= high)
GenRangePanic ==
    /\ pc = "gen_range"
    /\ SampleRange(1, phi) = {}
    /\ pc' = "panicked"
    /\ UNCHANGED <<keyVars, utilVars>>

\* .find(|x| phi.gcd(x) == 1): accept the candidate or draw again
Find ==
    /\ pc = "find"
    /\ IF gcd(phi, cand) = 1
       THEN e' = cand /\ pc' = "inverse"
       ELSE e' = e /\ pc' = "gen_range"
    /\ UNCHANGED <<p, q, n, phi, cand, d, data, cipher, plain, utilVars>>

\* let d = {let inv = mod_mult_inv(phi, e); if inv < 0 {inv + phi} else {inv}}
\* and return (PublicKey(n, e), PrivateKey(d))
Inverse ==
    /\ pc = "inverse"
    /\ d' = Normalize(mod_mult_inv(phi, e), phi)
    /\ pc' = "keyed"
    /\ UNCHANGED <<p, q, n, phi, cand, e, data, cipher, plain, utilVars>>

\* encrypt(m, public)
Encrypt(m) ==
    /\ pc = "keyed"
    /\ data' = m
    /\ cipher' = encrypt(m, KeyPair[1])
    /\ pc' = "encrypted"
    /\ UNCHANGED <<p, q, n, phi, cand, e, d, plain, utilVars>>

\* decrypt(cipher, (public, private))
Decrypt ==
    /\ pc = "encrypted"
    /\ plain' = decrypt(cipher, KeyPair)
    /\ pc' = "decrypted"
    /\ UNCHANGED <<p, q, n, phi, cand, e, d, data, cipher, utilVars>>

(***************************************************************************)
(* util::mod_mult_inv, one loop iteration a step                           *)
(***************************************************************************)
InvLoop ==
    /\ pc = "inv_loop"
    /\ mi.r2 # 0
    /\ mi' = InvStep(mi)
    /\ iters' = iters + 1
    /\ UNCHANGED <<pc, keyVars, args, mp, ret>>

InvReturn ==
    /\ pc = "inv_loop"
    /\ mi.r2 = 0
    /\ ret' = mi.t1
    /\ pc' = "inv_done"
    /\ UNCHANGED <<keyVars, args, mi, mp, iters>>

(***************************************************************************)
(* util::mod_pow, one loop iteration a step                                *)
(***************************************************************************)
PowLoop ==
    /\ pc = "pow_loop"
    /\ mp.exponent > 0
    /\ mp' = PowStep(mp)
    /\ iters' = iters + 1
    /\ UNCHANGED <<pc, keyVars, args, mi, ret>>

PowReturn ==
    /\ pc = "pow_loop"
    /\ ~(mp.exponent > 0)
    /\ ret' = mp.out
    /\ pc' = "pow_done"
    /\ UNCHANGED <<keyVars, args, mi, mp, iters>>

MaxPhi == (MaxPrime + 1) * (MaxPrime + 1)

Next ==
    \/ Totient
    \/ \E x \in 1..MaxPhi : GenRange(x)
    \/ GenRangePanic
    \/ Find
    \/ Inverse
    \/ \E m \in 0..(n - 1) : Encrypt(m)
    \/ Decrypt
    \/ InvLoop
    \/ InvReturn
    \/ PowLoop
    \/ PowReturn

Spec == Init /\ [][Next]_vars

\* a step of the running call (encrypt and decrypt are separate calls, which
\* the caller may or may not make)
Step ==
    \/ Totient
    \/ \E x \in 1..MaxPhi : GenRange(x)
    \/ GenRangePanic
    \/ Find
    \/ Inverse
    \/ InvLoop
    \/ InvReturn
    \/ PowLoop
    \/ PowReturn

\* rng.gen_range returns a value that the filter of find accepts
AcceptedDraw == \E x \in 1..MaxPhi : GenRange(x) /\ gcd(phi, x) = 1

\* A running call always takes its next step.  A fair randomness source
\* returns every value of the sampled range again and again; of that
\* assumption the model states what it implies for the values find accepts:
\* if the range holds such values, one of them is returned again and again.
FairSpec ==
    /\ Spec
    /\ WF_vars(Step)
    /\ SF_vars(AcceptedDraw)

(***************************************************************************)
(* Properties                                                              *)
(***************************************************************************)
Returned == {"keyed", "encrypted", "decrypted"}

\* x and y are congruent modulo m (m > 0)
Congruent(x, y, m) == (x - y) % m = 0

\* base^exponent mod modulus by repeated multiplication
RECURSIVE BrutePow(_, _, _)
BrutePow(b, x, m) == IF x = 0 THEN 1 % m ELSE (b * BrutePow(b, x - 1, m)) % m

\* number of binary digits of x >= 0
BitLength(x) == IF x = 0 THEN 0 ELSE CHOOSE k \in 1..31 : Pow2(k - 1) <= x /\ x < Pow2(k)

InvCall == pc \in {"inv_loop", "inv_done"}

PowCall == pc \in {"pow_loop", "pow_done"}

\* C1: the public exponent of every returned key pair satisfies
\* 1 < e < phi and gcd(e, phi) = 1.
C1_PublicExponent ==
    pc \in Returned => 1 < e /\ e < phi /\ gcd(e, phi) = 1

\* C2: the private exponent of every returned key pair satisfies
\* 0 <= d < phi and (d*e) mod phi = 1; d is the raw result of
\* mod_mult_inv(phi, e), plus phi once when that result is negative.
C2_PrivateExponent ==
    pc \in Returned =>
        /\ 0 <= d /\ d < phi
        /\ TruncRem(d * e, phi) = 1
        /\ d \in {mod_mult_inv(phi, e), mod_mult_inv(phi, e) + phi}

C2_Witness ==
    pc = "keyed" /\ e > 1 /\ mod_mult_inv(phi, e) < 0 /\ d = mod_mult_inv(phi, e) + phi

\* C3: for distinct primes and every plaintext 0 <= m < p*q, decrypting the
\* encryption of m under a generated key pair gives m back.
C3_RoundTrip ==
    (pc = "decrypted" /\ p # q) => plain = data

C3_Witness ==
    /\ pc = "decrypted" /\ p # q /\ e > 1
    /\ data > 0 /\ data % p = 0 /\ cipher # data /\ plain = data

\* C4: for base >= 0, exponent >= 0 and modulus >= 1, mod_pow returns
\* base^exponent mod modulus, the value of repeated multiplication.
C4_ModPow ==
    (pc = "pow_done" /\ args[1] >= 0 /\ args[3] >= 1) =>
        ret = BrutePow(args[1], args[2], args[3])

C7_Returns ==
    (pc = "start") ~> (pc = "keyed")

\* C7 as amended: for any two primes that are not both 2, the sampled range
\* holds a value coprime to phi and, under a fair randomness source,
\* gen_key_pair eventually returns a key pair.
C7_ReturnsUnlessBothTwo ==
    /\ [](pc = "gen_range" /\ ~(p = 2 /\ q = 2) =>
            \E x \in SampleRange(1, phi) : gcd(phi, x) = 1)
    /\ (pc = "start" /\ ~(p = 2 /\ q = 2)) ~> (pc = "keyed")

C7_Witness ==
    pc = "keyed" /\ p = 3 /\ q = 5 /\ cand = 7 /\ e = 7

\* C8: for r1, r2 >= 0 the loop of mod_mult_inv terminates: every iteration
\* leaves r2 non-negative and strictly smaller, and the function returns the
\* t1 held when r2 reaches 0.
C8_InvTerminates ==
    /\ [][(pc = "inv_loop" /\ pc' = "inv_loop") =>
            (0 <= mi'.r2 /\ mi'.r2 < mi.r2)]_vars
    /\ (pc = "inv_loop") ~> (pc = "inv_done" /\ mi.r2 = 0 /\ ret = mi.t1)

C8_Witness ==
    pc = "inv_done" /\ args = <<3120, 17>> /\ iters = 4 /\ ret = mi.t1

\* C9: the loop of mod_pow terminates after exactly as many iterations as
\* the exponent has binary digits.
C9_PowIterations ==
    (pc = "pow_loop") ~> (pc = "pow_done" /\ iters = BitLength(args[2]))

C9_Witness ==
    pc = "pow_done" /\ args[2] = 46 /\ iters = 6

====
